---------------------------- MODULE Spec2Model ----------------------------
(***************************************************************************)
(* A model of serxka/voxel: the per-frame system of src/main.rs            *)
(* (main_render_system_primary_window) and the frame renderer of           *)
(* src/render.rs (Render::new, Render::render, TriangleDrawPipeline::draw). *)
(*                                                                         *)
(* The CPU thread is one process whose position is pc; every statement of  *)
(* Render::render is one step, so that the GPU, which is the other         *)
(* process, interleaves with it.  A `.unwrap()` on a failed library call   *)
(* is a panic: the process stops (pc = "panicked").                        *)
(*                                                                         *)
(* Two specifications share the steps of Render::render and of the GPU:    *)
(*   Spec     the frame loop of main.rs calling render once per frame;     *)
(*   SpecApi  the two public operations of render.rs, render and draw,     *)
(*            called directly with arbitrary arguments.                    *)
(***************************************************************************)
EXTENDS Integers, Sequences, FiniteSets, TLC

VARIABLES
    pc,                 \* position of the CPU thread
    caller,             \* "main" (the frame loop) or "test" (direct calls)
    render,             \* the Render resource (struct Render, render.rs:38-43)
    windows,            \* number of entities with a Window component
    swapchain,          \* the window renderer's swapchain: format, extent, image_index
    previous_frame_end, \* the window renderer's stored future (0: sync::now)
    tokens,             \* every GpuFuture created so far, by id (1..Len)
    m,                  \* locals of main_render_system_primary_window
    r,                  \* locals of Render::render
    hist,               \* one record per frame-loop iteration / direct call
    objs,               \* number of Vulkan objects allocated so far
    drawn               \* the command buffer of the last direct draw call

vars == <<pc, caller, render, windows, swapchain, previous_frame_end, tokens,
          m, r, hist, objs, drawn>>

-----------------------------------------------------------------------------
(* Bounds of the model *)

\* Number of frame-loop iterations (Spec) or direct calls (SpecApi) explored.
MaxFrames == 3

\* Number of images of the swapchain.
NumImages == 2

-----------------------------------------------------------------------------
(* Values *)

None == <<>>
Some(x) == <<x>>

Formats == {"B8G8R8A8_SRGB", "R8G8B8A8_UNORM"}

\* Window / swapchain extents the frame loop sees (the window is resizable,
\* main.rs:31-33).
Extents == {<<1920, 1080>>, <<800, 600>>}

\* Viewport dimensions draw is called with directly: small ones, the ones
\* around 2^24 (an f32 has a 24-bit significand) and the largest value the
\* model checker's integers hold.
DrawDims == { <<1, 1>>, <<100, 100>>, <<1920, 1080>>, <<16777215, 16777216>>,
              <<16777217, 100>>, <<1, 16777219>>, <<33554434, 16777218>>,
              <<2147483647, 2147483647>> }

(* f32: the value (-1)^neg * mant * 2^exp, with mant odd or zero, so that  *)
(* equal values have equal representations.                                *)
RECURSIVE F32Normal(_, _, _)
F32Normal(neg, mant, exp) ==
    IF mant = 0 THEN [neg |-> FALSE, mant |-> 0, exp |-> 0]
    ELSE IF mant % 2 = 0 THEN F32Normal(neg, mant \div 2, exp + 1)
    ELSE [neg |-> neg, mant |-> mant, exp |-> exp]

\* The literals of render.rs: 0.0, 1.0, 0.5, -0.5
F32Zero == F32Normal(FALSE, 0, 0)
F32One == F32Normal(FALSE, 1, 0)
F32Half == F32Normal(FALSE, 1, -1)
F32NegHalf == F32Normal(TRUE, 1, -1)

\* Number of bits of n > 0.
RECURSIVE BitLen(_)
BitLen(n) == IF n = 0 THEN 0 ELSE 1 + BitLen(n \div 2)

(* `n as f32` for a u32 n: the nearest f32, ties to even.  An f32 has a    *)
(* 24-bit significand: a value of more than 24 bits loses its low bits.    *)
U32AsF32(n) ==
    LET bits == BitLen(n)
    IN  IF bits <= 24 THEN F32Normal(FALSE, n, 0)
        ELSE LET s == bits - 24
                 q == n \div (2 ^ s)
                 rem == n % (2 ^ s)
                 half == 2 ^ (s - 1)
                 up == rem > half \/ (rem = half /\ q % 2 = 1)
             IN  F32Normal(FALSE, IF up THEN q + 1 ELSE q, s)

\* Whether the f32 f has exactly the value of the u32 n.
F32EqualsU32(f, n) ==
    /\ ~f.neg
    /\ f.exp >= 0
    /\ f.exp <= 30
    /\ n % (2 ^ f.exp) = 0
    /\ n \div (2 ^ f.exp) = f.mant

-----------------------------------------------------------------------------
(* render.rs: construction *)

PosVertex_new(x, y) == [position |-> <<x, y>>]

triangle ==
    << PosVertex_new(F32Zero, F32NegHalf),
       PosVertex_new(F32Half, F32Half),
       PosVertex_new(F32NegHalf, F32Half) >>

\* vulkano::single_pass_renderpass! with one colour attachment; Subpass 0.
RenderPass_new(output_format) ==
    [ attachments |-> << [format |-> output_format, samples |-> 1,
                          load_op |-> "Clear", store_op |-> "Store"] >>,
      color |-> <<1>>,
      depth_stencil |-> None ]

Subpass_from(render_pass, index) == [render_pass |-> render_pass, index |-> index]

TriangleDrawPipeline_new(subpass) ==
    [ pipeline |-> [ stages |-> <<"vs", "fs">>,
                     dynamic_state |-> {"Viewport"},
                     subpass |-> subpass ],
      subpass |-> subpass,
      vertices |-> triangle ]

Render_new(output_format) ==
    LET render_pass == RenderPass_new(output_format)
        subpass == Subpass_from(render_pass, 0)
    IN  [ render_pass |-> render_pass,
          triangle_draw_pipeline |-> TriangleDrawPipeline_new(subpass) ]

-----------------------------------------------------------------------------
(* render.rs: TriangleDrawPipeline::draw *)

\* Faulty variant of Viewport: width and height exchanged.
ViewportSwapped(viewport_dimensions) ==
    [ offset |-> <<F32Zero, F32Zero>>,
      extent |-> <<U32AsF32(viewport_dimensions[2]), U32AsF32(viewport_dimensions[1])>>,
      depth_range |-> <<F32Zero, F32One>> ]

Viewport(viewport_dimensions) ==
    [ offset |-> <<F32Zero, F32Zero>>,
      extent |-> <<U32AsF32(viewport_dimensions[1]), U32AsF32(viewport_dimensions[2])>>,
      depth_range |-> <<F32Zero, F32One>> ]

\* Faulty variant of draw: the recording depends on how many buffers were
\* allocated before (the first instance is taken from a running counter).
draw_counting(self, viewport_dimensions, id) ==
    [ kind |-> "secondary",
      id |-> id,
      usage |-> "MultipleSubmit",
      inheritance |-> self.subpass,
      commands |-> <<
          [op |-> "set_viewport", first |-> 0,
           viewports |-> <<Viewport(viewport_dimensions)>>],
          [op |-> "bind_pipeline_graphics", pipeline |-> self.pipeline],
          [op |-> "bind_vertex_buffers", first_binding |-> 0, buffer |-> self.vertices],
          [op |-> "draw", vertex_count |-> Len(self.vertices), instance_count |-> 1,
           first_vertex |-> 0, first_instance |-> id - 1] >> ]

\* Faulty variant of draw: the pipeline is bound before the viewport is
\* set, and the draw call counts one vertex too few.
draw_misrecorded(self, viewport_dimensions, id) ==
    [ kind |-> "secondary",
      id |-> id,
      usage |-> "MultipleSubmit",
      inheritance |-> self.subpass,
      commands |-> <<
          [op |-> "bind_pipeline_graphics", pipeline |-> self.pipeline],
          [op |-> "set_viewport", first |-> 0,
           viewports |-> <<Viewport(viewport_dimensions)>>],
          [op |-> "bind_vertex_buffers", first_binding |-> 0, buffer |-> self.vertices],
          [op |-> "draw", vertex_count |-> Len(self.vertices) - 1, instance_count |-> 1,
           first_vertex |-> 0, first_instance |-> 0] >> ]

\* The secondary command buffer draw records; id is the allocation it got.
draw(self, viewport_dimensions, id) ==
    [ kind |-> "secondary",
      id |-> id,
      usage |-> "MultipleSubmit",
      inheritance |-> self.subpass,
      commands |-> <<
          [op |-> "set_viewport", first |-> 0,
           viewports |-> <<Viewport(viewport_dimensions)>>],
          [op |-> "bind_pipeline_graphics", pipeline |-> self.pipeline],
          [op |-> "bind_vertex_buffers", first_binding |-> 0, buffer |-> self.vertices],
          [op |-> "draw", vertex_count |-> Len(self.vertices), instance_count |-> 1,
           first_vertex |-> 0, first_instance |-> 0] >> ]

-----------------------------------------------------------------------------
(* GPU futures *)

\* A future: what it waits for (after), the operation it adds to the chain
\* (op: "queued", "running", "done") and who has taken it by value (uses).
Token(kind, frame, after, cb, image) ==
    [ kind |-> kind, frame |-> frame, after |-> after, uses |-> <<>>,
      op |-> "queued", cb |-> cb, image |-> image ]

NextToken == Len(tokens) + 1

\* What chaining after future f waits for; 0 is sync::now(), which has
\* nothing to wait for.
After(f) == IF f = 0 THEN {} ELSE {f}

\* tokens after `id` was moved into `user`
Used(toks, id, user) ==
    IF id = 0 THEN toks ELSE [toks EXCEPT ![id].uses = Append(@, user)]

\* A future has signaled when its own operation and all it was chained
\* after are done.
RECURSIVE Signaled(_)
Signaled(id) ==
    /\ tokens[id].op = "done"
    /\ \A d \in tokens[id].after : Signaled(d)

\* Everything a future is (transitively) chained after.
RECURSIVE ChainOf(_)
ChainOf(id) ==
    tokens[id].after \cup UNION {ChainOf(d) : d \in tokens[id].after}

-----------------------------------------------------------------------------
(* Locals and history *)

MainLocals == [before |-> 0, final_image |-> None, after_render |-> 0]

RenderLocals ==
    [ before_future |-> 0, target |-> None, img_dims |-> None,
      framebuffer |-> None, builder |-> None, cb |-> None,
      command_buffer |-> None, after_future |-> 0 ]

\* What one frame-loop iteration (kind "frame") or direct call ("render",
\* "draw") did.
HistNew(kind, window) ==
    [ kind |-> kind,
      window |-> window,        \* the single-window query succeeded
      acquire |-> "none",       \* "ok" / "err"
      before |-> 0,             \* the wait token
      target |-> None,          \* the image view given to render
      calls |-> 0,              \* calls of Render::render
      failed |-> "none",        \* the step of render / draw that failed
      framebuffer |-> 0,        \* ids of what render built
      primary |-> 0,
      secondary |-> 0,
      drawn |-> None,           \* what a direct draw call was given and returned
      after |-> 0,              \* the token render returned
      presents |-> 0,           \* calls of present
      ended |-> "running" ]     \* "returned" / "panicked"

Cur == Len(hist)

\* `.unwrap()` on an Err: the thread panics, its locals are dropped.
Panic(step) ==
    /\ pc' = "panicked"
    /\ hist' = [hist EXCEPT ![Cur].failed = step, ![Cur].ended = "panicked"]
    /\ r' = RenderLocals
    /\ m' = MainLocals

-----------------------------------------------------------------------------
(* main.rs: main_render_system_primary_window *)

Init ==
    /\ pc = "idle"
    /\ caller = "main"
    /\ windows = 1
    /\ \E f \in Formats :
          /\ swapchain = [format |-> f, extent |-> <<1920, 1080>>, image_index |-> 1]
          \* create_pipelines: Render::new(.., swapchain_format())
          /\ render = Render_new(f)
    /\ previous_frame_end = 0
    /\ tokens = <<>>
    /\ m = MainLocals
    /\ r = RenderLocals
    /\ hist = <<>>
    /\ objs = 0
    /\ drawn = None

\* close_on_esc (main.rs:40) despawns the window between two runs of the
\* render system.
WindowClosed ==
    /\ pc = "idle"
    /\ windows = 1
    /\ windows' = 0
    /\ UNCHANGED <<pc, caller, render, swapchain, previous_frame_end, tokens,
                   m, r, hist, objs, drawn>>

\* Faulty variant of Main_system: the result of the window query is not
\* looked at and the body runs whatever the number of windows.
Main_system_always ==
    /\ pc = "idle"
    /\ Cur < MaxFrames
    /\ hist' = Append(hist, HistNew("frame", windows = 1))
    /\ pc' = "m_acquire"
    /\ UNCHANGED <<caller, render, windows, swapchain, previous_frame_end,
                   tokens, m, r, objs, drawn>>

\* main.rs:62-70: the system runs; window_query.get_single();
\* get_vulkano_window_mut(window_entity).unwrap()
Main_system ==
    /\ pc = "idle"
    /\ Cur < MaxFrames
    /\ IF windows = 1
       THEN \/ /\ hist' = Append(hist, HistNew("frame", TRUE))
               /\ pc' = "m_acquire"
            \/ \* None: the window entity has no renderer; .unwrap() panics
               /\ hist' = Append(hist, [HistNew("frame", TRUE) EXCEPT
                                           !.failed = "get_vulkano_window_mut",
                                           !.ended = "panicked"])
               /\ pc' = "panicked"
       ELSE \* no single window: the body is skipped; the app exits once
            \* all windows are closed
            /\ hist' = Append(hist, [HistNew("frame", FALSE) EXCEPT !.ended = "returned"])
            /\ pc' = "exited"
    /\ UNCHANGED <<caller, render, windows, swapchain, previous_frame_end,
                   tokens, m, r, objs, drawn>>

\* The future acquire() returns: image available, joined with the end of
\* the previous frame (the window renderer, outside this repository).
acquire_future(frame, image) ==
    Token("acquire", frame, After(previous_frame_end), None, image)

\* The future present(after_future, ..) makes: the swapchain present,
\* chained after the future it is given.
present_future(after_future, frame, image) ==
    Token("present", frame, After(after_future), None, image)

\* Faulty variant of Main_acquire_err: the error is logged and the frame
\* goes on with sync::now() as its wait token.
Main_acquire_err_continue ==
    /\ pc = "m_acquire"
    /\ hist' = [hist EXCEPT ![Cur].acquire = "err"]
    /\ pc' = "m_render"
    /\ UNCHANGED <<caller, render, windows, swapchain, previous_frame_end,
                   tokens, m, r, objs, drawn>>

\* main.rs:73-77: acquire() is Err: log and return
Main_acquire_err ==
    /\ pc = "m_acquire"
    /\ hist' = [hist EXCEPT ![Cur].acquire = "err", ![Cur].ended = "returned"]
    /\ pc' = "idle"
    /\ UNCHANGED <<caller, render, windows, swapchain, previous_frame_end,
                   tokens, m, r, objs, drawn>>

\* main.rs:73,78: acquire() is Ok(f).  The renderer (re)creates the
\* swapchain at the window's size, picks an image, and returns the future
\* "previous frame's end joined with image available".
Main_acquire_ok ==
    /\ pc = "m_acquire"
    /\ \E e \in Extents, i \in 1..NumImages :
          swapchain' = [swapchain EXCEPT !.extent = e, !.image_index = i]
    /\ tokens' = Append(Used(tokens, previous_frame_end, "join"),
                        acquire_future(Cur, swapchain'.image_index))
    /\ previous_frame_end' = 0
    /\ m' = [m EXCEPT !.before = NextToken]
    /\ hist' = [hist EXCEPT ![Cur].acquire = "ok", ![Cur].before = NextToken]
    /\ pc' = "m_render"
    /\ UNCHANGED <<caller, render, windows, r, objs, drawn>>

\* Faulty variant of Main_call_render: render is given sync::now() and the
\* future of acquire is dropped.
Main_call_render_now ==
    /\ pc = "m_render"
    /\ LET final_image == [ image |-> swapchain.image_index,
                            format |-> swapchain.format,
                            extent |-> swapchain.extent ]
       IN  /\ r' = [RenderLocals EXCEPT !.target = Some(final_image)]
           /\ hist' = [hist EXCEPT ![Cur].calls = @ + 1,
                                   ![Cur].target = Some(final_image)]
    /\ m' = [m EXCEPT !.before = 0]
    /\ pc' = "r_framebuffer"
    /\ UNCHANGED <<caller, render, windows, swapchain, previous_frame_end,
                   tokens, objs, drawn>>

\* main.rs:81-82: final_image = swapchain_image_view();
\*                render.render(before, final_image)
Main_call_render ==
    /\ pc = "m_render"
    /\ LET final_image == [ image |-> swapchain.image_index,
                            format |-> swapchain.format,
                            extent |-> swapchain.extent ]
       IN  /\ r' = [RenderLocals EXCEPT !.before_future = m.before,
                                        !.target = Some(final_image)]
           /\ hist' = [hist EXCEPT ![Cur].calls = @ + 1,
                                   ![Cur].target = Some(final_image)]
    /\ tokens' = Used(tokens, m.before, "render")
    /\ m' = [m EXCEPT !.before = 0]
    /\ pc' = "r_framebuffer"
    /\ UNCHANGED <<caller, render, windows, swapchain, previous_frame_end,
                   objs, drawn>>

\* Faulty variant of Main_present: the future render returned is dropped
\* and the system returns without presenting the image.
Main_present_skipped ==
    /\ pc = "m_present"
    /\ hist' = [hist EXCEPT ![Cur].ended = "returned"]
    /\ m' = MainLocals
    /\ pc' = "idle"
    /\ UNCHANGED <<caller, render, windows, swapchain, previous_frame_end,
                   tokens, r, objs, drawn>>

\* Faulty variant of Main_present: present is given sync::now() and the
\* future render returned is dropped.
Main_present_now ==
    /\ pc = "m_present"
    /\ tokens' = Append(tokens, present_future(0, Cur, swapchain.image_index))
    /\ previous_frame_end' = NextToken
    /\ hist' = [hist EXCEPT ![Cur].presents = @ + 1]
    /\ m' = MainLocals
    /\ pc' = "m_present_wait"
    /\ UNCHANGED <<caller, render, windows, swapchain, r, objs, drawn>>

\* main.rs:85: primary_window.renderer.present(after_render, true): the
\* renderer chains the swapchain present after the future it is given and
\* keeps the result as the previous frame's end ...
Main_present ==
    /\ pc = "m_present"
    /\ tokens' = Append(Used(tokens, m.after_render, "present"),
                        present_future(m.after_render, Cur, swapchain.image_index))
    /\ previous_frame_end' = NextToken
    /\ hist' = [hist EXCEPT ![Cur].presents = @ + 1]
    /\ m' = MainLocals
    /\ pc' = "m_present_wait"
    /\ UNCHANGED <<caller, render, windows, swapchain, r, objs, drawn>>

\* ... and, its second argument being true, waits for that future before
\* it returns; the system returns (main.rs:86-87).
Main_present_wait ==
    /\ pc = "m_present_wait"
    /\ previous_frame_end # 0
    /\ Signaled(previous_frame_end)
    /\ hist' = [hist EXCEPT ![Cur].ended = "returned"]
    /\ pc' = "idle"
    /\ UNCHANGED <<caller, render, windows, swapchain, previous_frame_end,
                   tokens, m, r, objs, drawn>>

-----------------------------------------------------------------------------
(* render.rs: Render::render, one step per statement *)

\* The rule of Framebuffer::new (the graphics library, not in this
\* repository; section 4.2 of the specification): an attachment is
\* accepted only if its format is the format of the render pass attachment
\* it is bound to.
FramebufferCompatible(render_pass, target) ==
    target.format = render_pass.attachments[1].format

\* Faulty variant of Render_framebuffer: the primary command buffer
\* builder (render.rs:95-100) is made before the framebuffer, so a call
\* whose framebuffer is refused has already allocated a command buffer.
Render_framebuffer_after_primary ==
    /\ pc = "r_framebuffer"
    /\ \/ /\ FramebufferCompatible(render.render_pass, r.target[1])
          /\ r' = [r EXCEPT !.img_dims = Some(r.target[1].extent),
                            !.framebuffer = Some([ id |-> objs + 1,
                                                   render_pass |-> render.render_pass,
                                                   attachments |-> <<r.target[1]>> ]),
                            !.target = None]
          /\ objs' = objs + 1
          /\ hist' = [hist EXCEPT ![Cur].framebuffer = objs + 1]
          /\ pc' = "r_primary"
          /\ UNCHANGED m
       \/ /\ pc' = "panicked"
          /\ hist' = [hist EXCEPT ![Cur].primary = objs + 1,
                                  ![Cur].failed = "framebuffer",
                                  ![Cur].ended = "panicked"]
          /\ objs' = objs + 1
          /\ r' = RenderLocals
          /\ m' = MainLocals
    /\ UNCHANGED <<caller, render, windows, swapchain, previous_frame_end,
                   tokens, drawn>>

\* render.rs:86-94: img_dims = target.image().extent();
\*                  Framebuffer::new(render_pass, [target]).unwrap()
Render_framebuffer ==
    /\ pc = "r_framebuffer"
    /\ \/ /\ FramebufferCompatible(render.render_pass, r.target[1])
          /\ r' = [r EXCEPT !.img_dims = Some(r.target[1].extent),
                            !.framebuffer = Some([ id |-> objs + 1,
                                                   render_pass |-> render.render_pass,
                                                   attachments |-> <<r.target[1]>> ]),
                            !.target = None]
          /\ objs' = objs + 1
          /\ hist' = [hist EXCEPT ![Cur].framebuffer = objs + 1]
          /\ pc' = "r_primary"
          /\ UNCHANGED m
       \/ \* Err (incompatible attachment, or the device fails)
          /\ Panic("framebuffer")
          /\ UNCHANGED objs
    /\ UNCHANGED <<caller, render, windows, swapchain, previous_frame_end,
                   tokens, drawn>>

\* Faulty variant of Render_primary: the statements after it are taken out
\* of order, the secondary buffer being requested and executed before the
\* render pass has begun.
Render_primary_then_draw ==
    /\ pc = "r_primary"
    /\ r' = [r EXCEPT !.builder = Some([ id |-> objs + 1,
                                         kind |-> "primary",
                                         usage |-> "OneTimeSubmit",
                                         commands |-> <<>>,
                                         in_render_pass |-> FALSE ])]
    /\ objs' = objs + 1
    /\ hist' = [hist EXCEPT ![Cur].primary = objs + 1]
    /\ pc' = "r_draw"
    /\ UNCHANGED <<m, caller, render, windows, swapchain, previous_frame_end,
                   tokens, drawn>>

\* render.rs:95-100: AutoCommandBufferBuilder::primary(.., OneTimeSubmit).unwrap()
Render_primary ==
    /\ pc = "r_primary"
    /\ \/ /\ r' = [r EXCEPT !.builder = Some([ id |-> objs + 1,
                                               kind |-> "primary",
                                               usage |-> "OneTimeSubmit",
                                               commands |-> <<>>,
                                               in_render_pass |-> FALSE ])]
          /\ objs' = objs + 1
          /\ hist' = [hist EXCEPT ![Cur].primary = objs + 1]
          /\ pc' = "r_begin_render_pass"
          /\ UNCHANGED m
       \/ /\ Panic("primary")
          /\ UNCHANGED objs
    /\ UNCHANGED <<caller, render, windows, swapchain, previous_frame_end,
                   tokens, drawn>>

\* clear_values: vec![Some([0.0; 4].into())]
ClearValues == << Some(<<F32Zero, F32Zero, F32Zero, F32Zero>>) >>

\* render.rs:101-112: begin_render_pass(RenderPassBeginInfo{..}, SubpassBeginInfo{..}).unwrap()
Render_begin_render_pass ==
    /\ pc = "r_begin_render_pass"
    /\ \/ /\ r' = [r EXCEPT
                     !.builder[1].commands =
                         Append(@, [ op |-> "begin_render_pass",
                                     framebuffer |-> r.framebuffer[1],
                                     clear_values |-> ClearValues,
                                     contents |-> "SecondaryCommandBuffers" ]),
                     !.builder[1].in_render_pass = TRUE,
                     !.framebuffer = None]
          /\ pc' = "r_draw"
          /\ UNCHANGED <<m, hist>>
       \/ Panic("begin_render_pass")
    /\ UNCHANGED <<caller, render, windows, swapchain, previous_frame_end,
                   tokens, objs, drawn>>

\* Faulty variant of Render_draw: draw is given the resolution the window
\* is created with (main.rs:31) instead of the extent of the target.
Render_draw_fixed ==
    /\ pc = "r_draw"
    /\ r' = [r EXCEPT !.cb = Some(draw(render.triangle_draw_pipeline,
                                       <<1920, 1080>>, objs + 1))]
    /\ objs' = objs + 1
    /\ hist' = [hist EXCEPT ![Cur].secondary = objs + 1]
    /\ pc' = "r_execute_commands"
    /\ UNCHANGED <<m, caller, render, windows, swapchain, previous_frame_end,
                   tokens, drawn>>

\* Faulty variant of Render_draw: the secondary buffer of the previous
\* call is kept and used again instead of a new one being recorded.
Render_draw_cached ==
    /\ pc = "r_draw"
    /\ LET cached == IF Cur > 1 THEN hist[Cur - 1].secondary ELSE 0
           id == IF cached # 0 THEN cached ELSE objs + 1
       IN  /\ r' = [r EXCEPT !.cb = Some(draw(render.triangle_draw_pipeline,
                                              <<r.img_dims[1][1], r.img_dims[1][2]>>,
                                              id))]
           /\ objs' = IF cached # 0 THEN objs ELSE objs + 1
           /\ hist' = [hist EXCEPT ![Cur].secondary = id]
    /\ pc' = "r_execute_commands"
    /\ UNCHANGED <<m, caller, render, windows, swapchain, previous_frame_end,
                   tokens, drawn>>

\* render.rs:113: cb = self.triangle_draw_pipeline.draw([img_dims[0], img_dims[1]])
\* (each unwrap inside draw, render.rs:254-274, may panic)
Render_draw ==
    /\ pc = "r_draw"
    /\ \/ /\ r' = [r EXCEPT !.cb = Some(draw(render.triangle_draw_pipeline,
                                             <<r.img_dims[1][1], r.img_dims[1][2]>>,
                                             objs + 1))]
          /\ objs' = objs + 1
          /\ hist' = [hist EXCEPT ![Cur].secondary = objs + 1]
          /\ pc' = "r_execute_commands"
          /\ UNCHANGED m
       \/ \* render.rs:254: no secondary buffer could be allocated
          /\ Panic("draw")
          /\ UNCHANGED objs
       \/ \* render.rs:267-274: recording into the allocated buffer, or its
          \* build, fails
          /\ pc' = "panicked"
          /\ hist' = [hist EXCEPT ![Cur].secondary = objs + 1,
                                  ![Cur].failed = "draw",
                                  ![Cur].ended = "panicked"]
          /\ objs' = objs + 1
          /\ r' = RenderLocals
          /\ m' = MainLocals
    /\ UNCHANGED <<caller, render, windows, swapchain, previous_frame_end,
                   tokens, drawn>>

\* Faulty variant of Render_execute_commands: the Err is dropped (`.ok()`
\* for `.unwrap()`) and recording goes on without the secondary buffer.
Render_execute_commands_ignored ==
    /\ pc = "r_execute_commands"
    /\ \/ /\ r.builder[1].in_render_pass
          /\ r' = [r EXCEPT
                     !.builder[1].commands =
                         Append(@, [op |-> "execute_commands", cb |-> r.cb[1]]),
                     !.cb = None]
          /\ UNCHANGED hist
       \/ /\ r' = [r EXCEPT !.cb = None]
          /\ hist' = [hist EXCEPT ![Cur].failed = "execute_commands"]
    /\ pc' = "r_end_render_pass"
    /\ UNCHANGED <<caller, render, windows, swapchain, previous_frame_end,
                   tokens, m, objs, drawn>>

\* render.rs:114: command_buffer_builder.execute_commands(cb).unwrap()
\* (a secondary buffer is accepted only inside a render pass)
Render_execute_commands ==
    /\ pc = "r_execute_commands"
    /\ \/ /\ r.builder[1].in_render_pass
          /\ r' = [r EXCEPT
                     !.builder[1].commands =
                         Append(@, [op |-> "execute_commands", cb |-> r.cb[1]]),
                     !.cb = None]
          /\ pc' = "r_end_render_pass"
          /\ UNCHANGED <<m, hist>>
       \/ Panic("execute_commands")
    /\ UNCHANGED <<caller, render, windows, swapchain, previous_frame_end,
                   tokens, objs, drawn>>

\* render.rs:115-117: command_buffer_builder.end_render_pass(..).unwrap()
Render_end_render_pass ==
    /\ pc = "r_end_render_pass"
    /\ \/ /\ r.builder[1].in_render_pass
          /\ r' = [r EXCEPT
                     !.builder[1].commands = Append(@, [op |-> "end_render_pass"]),
                     !.builder[1].in_render_pass = FALSE]
          /\ pc' = "r_build"
          /\ UNCHANGED <<m, hist>>
       \/ Panic("end_render_pass")
    /\ UNCHANGED <<caller, render, windows, swapchain, previous_frame_end,
                   tokens, objs, drawn>>

\* render.rs:118: command_buffer = command_buffer_builder.build().unwrap()
\* (the builder is consumed; a buffer with an open render pass is refused)
Render_build ==
    /\ pc = "r_build"
    /\ \/ /\ ~r.builder[1].in_render_pass
          /\ r' = [r EXCEPT
                     !.command_buffer = Some([ id |-> r.builder[1].id,
                                               kind |-> r.builder[1].kind,
                                               usage |-> r.builder[1].usage,
                                               commands |-> r.builder[1].commands ]),
                     !.builder = None]
          /\ pc' = "r_then_execute"
          /\ UNCHANGED <<m, hist>>
       \/ Panic("build")
    /\ UNCHANGED <<caller, render, windows, swapchain, previous_frame_end,
                   tokens, objs, drawn>>

\* The image a primary command buffer renders to.
TargetImage(command_buffer) ==
    LET begins == {i \in 1..Len(command_buffer.commands) :
                      command_buffer.commands[i].op = "begin_render_pass"}
    IN  IF begins = {} THEN 0
        ELSE command_buffer.commands[CHOOSE i \in begins : TRUE]
                 .framebuffer.attachments[1].image

\* Faulty variant of then_execute: the buffer is chained after sync::now()
\* and before_future is dropped.
then_execute_now(before_future, command_buffer, frame) ==
    Token("exec", frame, {}, Some(command_buffer), TargetImage(command_buffer))

\* render.rs:119-121: before_future.then_execute(gfx_queue, command_buffer)
\* The new future puts the buffer on the graphics queue, to run after
\* before_future.
then_execute(before_future, command_buffer, frame) ==
    Token("exec", frame, After(before_future), Some(command_buffer),
          TargetImage(command_buffer))

\* Faulty variant of Render_then_execute_ok: the CPU waits for
\* before_future before it submits.
Render_then_execute_wait ==
    /\ pc = "r_then_execute"
    /\ r.before_future # 0 => Signaled(r.before_future)
    /\ tokens' = Append(Used(tokens, r.before_future, "then_execute"),
                        Token("exec", Cur, After(r.before_future),
                              r.command_buffer,
                              TargetImage(r.command_buffer[1])))
    /\ r' = [r EXCEPT !.after_future = NextToken,
                      !.before_future = 0,
                      !.command_buffer = None]
    /\ pc' = "r_return"
    /\ UNCHANGED <<m, hist>>
    /\ UNCHANGED <<caller, render, windows, swapchain, previous_frame_end,
                   objs, drawn>>

\* render.rs:119-121, Ok: before_future and command_buffer are moved into
\* the new future
Render_then_execute_ok ==
    /\ pc = "r_then_execute"
    /\ tokens' = Append(Used(tokens, r.before_future, "then_execute"),
                        then_execute(r.before_future, r.command_buffer[1], Cur))
    /\ r' = [r EXCEPT !.after_future = NextToken,
                      !.before_future = 0,
                      !.command_buffer = None]
    /\ pc' = "r_return"
    /\ UNCHANGED <<m, hist>>
    /\ UNCHANGED <<caller, render, windows, swapchain, previous_frame_end,
                   objs, drawn>>

\* render.rs:119-121, Err: .unwrap() panics; before_future was moved into
\* then_execute
Render_then_execute_err ==
    /\ pc = "r_then_execute"
    /\ tokens' = Used(tokens, r.before_future, "then_execute")
    /\ Panic("then_execute")
    /\ UNCHANGED <<caller, render, windows, swapchain, previous_frame_end,
                   objs, drawn>>

Render_then_execute ==
    \/ Render_then_execute_ok
    \/ Render_then_execute_err

\* render.rs:123: after_future.boxed() is returned to the caller
\* (main.rs:82: let after_render = ...)
Render_return ==
    /\ pc = "r_return"
    /\ m' = [m EXCEPT !.after_render = r.after_future]
    /\ r' = RenderLocals
    /\ hist' = [hist EXCEPT ![Cur].after = r.after_future,
                            ![Cur].ended = IF caller = "main" THEN @ ELSE "returned"]
    /\ pc' = IF caller = "main" THEN "m_present" ELSE "t_idle"
    /\ UNCHANGED <<caller, render, windows, swapchain, previous_frame_end,
                   tokens, objs, drawn>>

RenderStep ==
    \/ Render_framebuffer
    \/ Render_primary
    \/ Render_begin_render_pass
    \/ Render_draw
    \/ Render_execute_commands
    \/ Render_end_render_pass
    \/ Render_build
    \/ Render_then_execute
    \/ Render_return

-----------------------------------------------------------------------------
(* The GPU and the presentation engine *)

SetOp(id, op) ==
    /\ tokens' = [tokens EXCEPT ![id].op = op]
    /\ UNCHANGED <<pc, caller, render, windows, swapchain, previous_frame_end,
                   m, r, hist, objs, drawn>>

\* The operation of a future may begin once all it was chained after has
\* signaled.
MayBegin(id) ==
    /\ tokens[id].op = "queued"
    /\ \A d \in tokens[id].after : Signaled(d)

\* An acquired image becomes available / a caller-made wait token signals.
Gpu_signal ==
    \E id \in 1..Len(tokens) :
        /\ tokens[id].kind \in {"acquire", "mock"}
        /\ tokens[id].op = "queued"
        /\ SetOp(id, "done")

\* The graphics queue starts a submitted command buffer.
Gpu_start ==
    \E id \in 1..Len(tokens) :
        /\ tokens[id].kind = "exec"
        /\ MayBegin(id)
        /\ SetOp(id, "running")

\* A running command buffer completes.
Gpu_finish ==
    \E id \in 1..Len(tokens) :
        /\ tokens[id].op = "running"
        /\ SetOp(id, "done")

\* The presentation engine shows an image.
Gpu_present ==
    \E id \in 1..Len(tokens) :
        /\ tokens[id].kind = "present"
        /\ MayBegin(id)
        /\ SetOp(id, "done")

-----------------------------------------------------------------------------
(* The frame loop *)

Next ==
    \/ WindowClosed
    \/ Main_system
    \/ Main_acquire_err
    \/ Main_acquire_ok
    \/ Main_call_render
    \/ Main_present
    \/ Main_present_wait
    \/ RenderStep
    \/ Gpu_signal
    \/ Gpu_start
    \/ Gpu_finish
    \/ Gpu_present

Spec == Init /\ [][Next]_vars

-----------------------------------------------------------------------------
(* The public operations of render.rs called directly *)

\* Image views render is called with directly: either format, and the
\* 100 x 100 extent of the specification's end-to-end scenario.
TestExtents == {<<100, 100>>}

InitApi ==
    /\ pc = "t_idle"
    /\ caller = "test"
    /\ windows = 1
    /\ \E f \in Formats :
          /\ swapchain = [format |-> f, extent |-> <<1920, 1080>>, image_index |-> 1]
          /\ render = Render_new(f)
    /\ previous_frame_end = 0
    /\ tokens = <<>>
    /\ m = MainLocals
    /\ r = RenderLocals
    /\ hist = <<>>
    /\ objs = 0
    /\ drawn = None

\* render.rs:82-85: render(before_future, target) with a wait token of the
\* caller's: a new one that signals when the caller's environment decides,
\* or the future the previous call returned.
Test_call_render ==
    /\ pc = "t_idle"
    /\ Cur < MaxFrames
    /\ \E f \in Formats, e \in TestExtents, fresh \in BOOLEAN :
          LET target == [image |-> 1, format |-> f, extent |-> e]
              before == IF fresh THEN NextToken ELSE m.after_render
              toks == IF fresh
                      THEN Append(tokens, Token("mock", Cur + 1, {}, None, 0))
                      ELSE tokens
          IN  /\ before # 0
              /\ tokens' = Used(toks, before, "render")
              /\ r' = [RenderLocals EXCEPT !.before_future = before,
                                           !.target = Some(target)]
              /\ hist' = Append(hist, [HistNew("render", TRUE) EXCEPT
                                          !.before = before,
                                          !.target = Some(target),
                                          !.calls = 1])
    /\ m' = MainLocals
    /\ pc' = "r_framebuffer"
    /\ UNCHANGED <<caller, render, windows, swapchain, previous_frame_end,
                   objs, drawn>>

\* Faulty variant of Test_call_draw: the vertex data, not the viewport
\* transform, is adapted to the dimensions (the buffer is rewritten with
\* the triangle mirrored when the viewport is taller than wide).
Test_call_draw_rewriting ==
    /\ pc = "t_idle"
    /\ Cur < MaxFrames
    /\ \E d \in DrawDims :
          /\ drawn' = Some([ viewport_dimensions |-> d,
                             cb |-> draw(render.triangle_draw_pipeline,
                                         d, objs + 1) ])
          /\ render' = IF d[1] < d[2]
                       THEN [render EXCEPT !.triangle_draw_pipeline.vertices =
                                <<@[1], @[3], @[2]>>]
                       ELSE render
          /\ objs' = objs + 1
          /\ hist' = Append(hist, [HistNew("draw", TRUE) EXCEPT
                                      !.secondary = objs + 1,
                                      !.drawn = drawn',
                                      !.ended = "returned"])
          /\ pc' = "t_idle"
    /\ UNCHANGED <<caller, windows, swapchain, previous_frame_end,
                   tokens, m, r>>

\* render.rs:244-275: draw(viewport_dimensions) with any two u32
Test_call_draw ==
    /\ pc = "t_idle"
    /\ Cur < MaxFrames
    /\ \E d \in DrawDims :
          \/ /\ drawn' = Some([ viewport_dimensions |-> d,
                                cb |-> draw(render.triangle_draw_pipeline,
                                            d, objs + 1) ])
             /\ objs' = objs + 1
             /\ hist' = Append(hist, [HistNew("draw", TRUE) EXCEPT
                                         !.secondary = objs + 1,
                                         !.drawn = drawn',
                                         !.ended = "returned"])
             /\ pc' = "t_idle"
          \/ \* render.rs:254: no secondary buffer could be allocated
             /\ hist' = Append(hist, [HistNew("draw", TRUE) EXCEPT
                                         !.failed = "draw",
                                         !.ended = "panicked"])
             /\ pc' = "panicked"
             /\ UNCHANGED <<objs, drawn>>
          \/ \* render.rs:267-274: recording into the allocated buffer, or
             \* its build, fails
             /\ hist' = Append(hist, [HistNew("draw", TRUE) EXCEPT
                                         !.secondary = objs + 1,
                                         !.failed = "draw",
                                         !.ended = "panicked"])
             /\ objs' = objs + 1
             /\ pc' = "panicked"
             /\ UNCHANGED drawn
    /\ UNCHANGED <<caller, render, windows, swapchain, previous_frame_end,
                   tokens, m, r>>

NextApi ==
    \/ Test_call_render
    \/ Test_call_draw
    \/ RenderStep
    \/ Gpu_signal
    \/ Gpu_start
    \/ Gpu_finish

SpecApi == InitApi /\ [][NextApi]_vars

-----------------------------------------------------------------------------
(* Properties *)

TokenIds == 1..Len(tokens)
ExecTokens == {t \in TokenIds : tokens[t].kind = "exec"}
PresentTokens == {t \in TokenIds : tokens[t].kind = "present"}
AcquireTokens == {t \in TokenIds : tokens[t].kind = "acquire"}
ExecOf(k) == {t \in ExecTokens : tokens[t].frame = k}
PresentOf(k) == {t \in PresentTokens : tokens[t].frame = k}
Frames == 1..Len(hist)

\* C1: the GPU work submitted by a Render call has not started (it is
\* still queued) unless the wait token of that very call has signaled.
C1_WorkAfterWaitToken ==
    \A t \in ExecTokens :
        LET before == hist[tokens[t].frame].before
        IN  /\ before # 0
            /\ tokens[t].op # "queued" => Signaled(before)

\* Two successive Render calls, each with a wait token of its own, whose
\* work has run, while a third call's work is queued behind a wait token
\* that has not signaled.
C1_Witness ==
    \E t1, t2, t3 \in ExecTokens :
        /\ t1 < t2 /\ t2 < t3
        /\ tokens[t1].op = "done" /\ tokens[t2].op = "done"
        /\ tokens[hist[tokens[t1].frame].before].kind = "mock"
        /\ tokens[hist[tokens[t2].frame].before].kind = "mock"
        /\ hist[tokens[t1].frame].before # hist[tokens[t2].frame].before
        /\ tokens[t3].op = "queued"
        /\ ~Signaled(hist[tokens[t3].frame].before)

IsPrefix(s, t) == Len(s) <= Len(t) /\ \A i \in 1..Len(s) : s[i] = t[i]

\* The system is between two iterations, or has stopped.
AtRest == pc \in {"idle", "exited", "panicked"}

\* C2 as stated: once an iteration is over, the token of acquire has been
\* passed into one Render call and consumed by one chaining operation,
\* which returned one new token, and that token has been passed to one
\* present call; no token is used twice or left unused.
C2_EveryTokenConsumedOnce ==
    /\ \A t \in AcquireTokens :
          /\ IsPrefix(tokens[t].uses, <<"render", "then_execute">>)
          /\ AtRest =>
                /\ tokens[t].uses = <<"render", "then_execute">>
                /\ Cardinality(ExecOf(tokens[t].frame)) = 1
                /\ hist[tokens[t].frame].after \in ExecOf(tokens[t].frame)
    /\ \A t \in ExecTokens :
          /\ IsPrefix(tokens[t].uses, <<"present">>)
          /\ AtRest => tokens[t].uses = <<"present">>

\* C3: the submission of a later frame is chained after the future an
\* earlier frame's Render returned; the GPU runs the frames' command
\* buffers in frame order, one at a time (so never two on one image).
C3_FramesInOrder ==
    \A e1, e2 \in ExecTokens :
        tokens[e1].frame < tokens[e2].frame =>
            /\ e1 = hist[tokens[e1].frame].after
            /\ e1 \in ChainOf(e2)
            /\ tokens[e2].op # "queued" => tokens[e1].op = "done"
            /\ ~(tokens[e1].op = "running" /\ tokens[e2].op = "running")

\* Two frames rendered to the same swapchain image, a skipped frame
\* between them, the first done and the second running.
C3_Witness ==
    \E e1, e2 \in ExecTokens :
        /\ tokens[e1].frame + 1 < tokens[e2].frame
        /\ tokens[e1].image = tokens[e2].image
        /\ tokens[e1].op = "done"
        /\ tokens[e2].op = "running"

\* C4: every present request of a frame was made with the token that the
\* same frame's Render call returned, and the image is not presented
\* before that token has signaled.
C4_PresentAfterRender ==
    \A p \in PresentTokens :
        LET k == tokens[p].frame
        IN  /\ hist[k].after \in ExecOf(k)
            /\ tokens[p].after = {hist[k].after}
            /\ tokens[p].op = "done" =>
                  /\ tokens[hist[k].after].op = "done"
                  /\ Signaled(hist[k].after)

\* A present is requested while the frame's work is still queued, and
\* (second frame) an image has been presented.
C4_Witness ==
    \E p1, p2 \in PresentTokens :
        /\ tokens[p1].op = "done"
        /\ tokens[p2].op = "queued"
        /\ tokens[hist[tokens[p2].frame].after].op = "queued"

\* C5: an iteration whose acquire failed called Render zero times, built
\* no framebuffer and no command buffer, submitted and presented nothing,
\* and returned; the frame loop is then ready for its next iteration.
C5_AcquireFailureSkipsFrame ==
    \A k \in Frames :
        hist[k].acquire = "err" =>
            /\ hist[k].calls = 0
            /\ hist[k].framebuffer = 0 /\ hist[k].primary = 0 /\ hist[k].secondary = 0
            /\ hist[k].before = 0 /\ hist[k].after = 0
            /\ \A t \in TokenIds : tokens[t].frame # k
            /\ hist[k].presents = 0
            /\ hist[k].ended = "returned"
            /\ k = Cur => pc = "idle"

\* An iteration whose acquire failed, followed by one that presented.
C5_Witness ==
    \E k \in Frames :
        /\ hist[k].acquire = "err"
        /\ k < Cur
        /\ hist[k + 1].presents = 1

\* The steps of Render::render before the submission (steps 1-6).
StepsBeforeSubmit ==
    {"framebuffer", "primary", "begin_render_pass", "draw",
     "execute_commands", "end_render_pass", "build"}

\* C6: when a step of Render fails in an iteration, the failure comes
\* back to the frame loop, which skips the present and returns: the
\* iteration does not end in a panic, and the process keeps running.
C6_RenderErrorsReturned ==
    \A k \in Frames :
        (hist[k].calls = 1 /\ hist[k].failed # "none") =>
            /\ hist[k].ended # "panicked"
            /\ pc # "panicked"
            /\ hist[k].presents = 0

\* Whether call k was given an image view of another format than the
\* render pass attachment's.
FormatMismatch(k) ==
    /\ hist[k].kind = "render"
    /\ hist[k].target[1].format # render.render_pass.attachments[1].format

\* C7: a Render call with a target of another format than the render
\* pass's gets no further than the framebuffer construction, where it
\* fails: no framebuffer, no primary buffer (so no render pass begun), no
\* secondary buffer, nothing submitted, no token returned.
C7_FormatMismatchFails ==
    \A k \in Frames :
        FormatMismatch(k) =>
            /\ hist[k].framebuffer = 0 /\ hist[k].primary = 0 /\ hist[k].secondary = 0
            /\ ExecOf(k) = {} /\ hist[k].after = 0
            /\ IF pc = "r_framebuffer"
               THEN k = Cur /\ hist[k].ended = "running"
               ELSE hist[k].failed = "framebuffer" /\ hist[k].ended = "panicked"

\* A call with a matching format returned, then one with a mismatching
\* format failed.
C7_Witness ==
    \E k \in Frames :
        /\ k > 1
        /\ hist[k - 1].kind = "render" /\ hist[k - 1].ended = "returned"
        /\ FormatMismatch(k)
        /\ hist[k].failed = "framebuffer"

\* C8: a frame in which one of the steps 1-6 of Render failed has no
\* command buffer on the graphics queue and no present request.
C8_NoPartialFrame ==
    \A k \in Frames :
        hist[k].failed \in StepsBeforeSubmit =>
            /\ ExecOf(k) = {}
            /\ PresentOf(k) = {}
            /\ hist[k].presents = 0

\* A frame that failed while its render pass was open (the secondary
\* buffer could not be executed), after a frame that was presented.
C8_Witness ==
    \E k \in Frames :
        /\ k > 1
        /\ hist[k - 1].presents = 1
        /\ hist[k].failed = "execute_commands"
        /\ hist[k].primary # 0

\* C9: the submission step and the return of Render are possible in
\* every state in which the CPU has reached them, whatever the GPU has
\* done so far: Render waits neither for before_future nor for its work.
C9_RenderNeverWaits ==
    /\ pc = "r_then_execute" => ENABLED Render_then_execute_ok
    /\ pc = "r_return" => ENABLED Render_return

\* Render has returned its token while before_future has not signaled
\* and the submitted work has not started.
C9_Witness ==
    /\ pc = "t_idle"
    /\ Cur > 0
    /\ hist[Cur].kind = "render"
    /\ hist[Cur].after \in ExecTokens
    /\ m.after_render = hist[Cur].after
    /\ ~Signaled(hist[Cur].before)
    /\ tokens[hist[Cur].after].op = "queued"

\* The viewport a secondary command buffer records.
RecordedViewport(cb) == cb.commands[1].viewports[1]

\* The largest u32 up to which every value is an f32: 2^24.
F32ExactMax == 16777216

\* C10 as stated: for every (width, height) the recorded viewport has
\* offset (0,0), extent exactly (width, height), depth range [0,1].
C10_ViewportExact ==
    drawn # None =>
        LET v == RecordedViewport(drawn[1].cb)
            d == drawn[1].viewport_dimensions
        IN  /\ drawn[1].cb.commands[1].op = "set_viewport"
            /\ v.offset = <<F32Zero, F32Zero>>
            /\ v.depth_range = <<F32Zero, F32One>>
            /\ F32EqualsU32(v.extent[1], d[1])
            /\ F32EqualsU32(v.extent[2], d[2])

\* C10, amended: offset (0,0) and depth range [0,1] for every (width,
\* height); the extent is exactly width (height) when that is at most
\* 2^24; above 2^24 it is exact only for the values that fit 24
\* significant bits.
C10_ViewportExactUpTo2Pow24 ==
    drawn # None =>
        LET v == RecordedViewport(drawn[1].cb)
            d == drawn[1].viewport_dimensions
        IN  /\ drawn[1].cb.commands[1].op = "set_viewport"
            /\ v.offset = <<F32Zero, F32Zero>>
            /\ v.depth_range = <<F32Zero, F32One>>
            /\ \A i \in 1..2 :
                  IF d[i] <= F32ExactMax
                  THEN F32EqualsU32(v.extent[i], d[i])
                  ELSE F32EqualsU32(v.extent[i], d[i])
                          <=> d[i] % (2 ^ (BitLen(d[i]) - 24)) = 0

\* draw was called with a width and a height that differ, one of them 2^24.
C10_Witness ==
    /\ drawn # None
    /\ drawn[1].viewport_dimensions = <<16777215, F32ExactMax>>
    /\ F32EqualsU32(RecordedViewport(drawn[1].cb).extent[1], 16777215)


\* The secondary buffers a sequence of primary commands executes.
ExecutedIn(commands) ==
    {commands[i].cb : i \in {j \in 1..Len(commands) : commands[j].op = "execute_commands"}}

\* Every primary command buffer there is: being recorded, sealed, submitted.
PrimaryBuffers ==
    {r.builder[i] : i \in 1..Len(r.builder)}
      \cup {r.command_buffer[i] : i \in 1..Len(r.command_buffer)}
      \cup {tokens[t].cb[1] : t \in ExecTokens}

\* Every secondary command buffer there is: returned by the last direct
\* draw call, held by render, or executed in a primary buffer.
SecondaryBuffers ==
    {drawn[i].cb : i \in 1..Len(drawn)}
      \cup {r.cb[i] : i \in 1..Len(r.cb)}
      \cup UNION {ExecutedIn(p.commands) : p \in PrimaryBuffers}

\* C11: every command buffer draw has recorded holds exactly these four
\* commands in this order: set viewport, bind the graphics pipeline, bind
\* the vertex buffer at slot 0, one non-indexed draw of the 3 vertices
\* (1 instance, first vertex 0, first instance 0); a direct draw call
\* creates no future, that is, submits nothing.
C11_DrawRecordsFourCommands ==
    /\ \A cb \in SecondaryBuffers :
          /\ Len(cb.commands) = 4
          /\ cb.commands[1].op = "set_viewport"
          /\ cb.commands[1].first = 0
          /\ Len(cb.commands[1].viewports) = 1
          /\ cb.commands[2] = [op |-> "bind_pipeline_graphics",
                               pipeline |-> render.triangle_draw_pipeline.pipeline]
          /\ cb.commands[3] = [op |-> "bind_vertex_buffers", first_binding |-> 0,
                               buffer |-> render.triangle_draw_pipeline.vertices]
          /\ cb.commands[4] = [op |-> "draw", vertex_count |-> 3, instance_count |-> 1,
                               first_vertex |-> 0, first_instance |-> 0]
          /\ Len(render.triangle_draw_pipeline.vertices) = 3
    /\ \A k \in Frames :
          hist[k].kind = "draw" =>
              /\ \A t \in TokenIds : tokens[t].frame # k
              /\ hist[k].after = 0 /\ hist[k].primary = 0

\* draw has been called directly, after a render call whose submitted
\* buffer executes the buffer draw recorded for it.
C11_Witness ==
    /\ drawn # None
    /\ hist[Cur].kind = "draw"
    /\ hist[Cur].ended = "returned"
    /\ \E t \in ExecTokens : ExecutedIn(tokens[t].cb[1].commands) # {}


\* Every draw call so far whose buffer still exists, with the viewport
\* dimensions it was given: the direct calls, and the calls render made
\* with the extent of its target.
DrawCalls ==
    {hist[k].drawn[1] : k \in {j \in Frames : hist[j].drawn # None}}
      \cup { [viewport_dimensions |-> hist[k].target[1].extent, cb |-> c] :
                 <<k, c>> \in {x \in Frames \X SecondaryBuffers :
                                  /\ hist[x[1]].kind # "draw"
                                  /\ hist[x[1]].secondary = x[2].id} }

\* What a secondary command buffer has recorded: all of it but the
\* identity of its allocation.
RecordedState(cb) ==
    [usage |-> cb.usage, inheritance |-> cb.inheritance, commands |-> cb.commands]

\* C12: any two draw calls with the same viewport dimensions, whatever
\* calls of draw and render lie between them, have recorded the same
\* state (viewport, pipeline, vertex buffer, draw parameters).
C12_DrawIdempotent ==
    \A a, b \in DrawCalls :
        a.viewport_dimensions = b.viewport_dimensions =>
            RecordedState(a.cb) = RecordedState(b.cb)

\* Two direct draw calls with the same dimensions and a render call that
\* returned between them; render's own draw call had these dimensions too.
C12_Witness ==
    \E k1, k2, k3 \in Frames :
        /\ k1 < k2 /\ k2 < k3
        /\ hist[k1].drawn # None /\ hist[k3].drawn # None
        /\ hist[k1].drawn[1].viewport_dimensions = hist[k3].drawn[1].viewport_dimensions
        /\ hist[k1].drawn[1].cb.id # hist[k3].drawn[1].cb.id
        /\ hist[k2].kind = "render" /\ hist[k2].ended = "returned"
        /\ hist[k2].target[1].extent = hist[k1].drawn[1].viewport_dimensions
        /\ \E a \in DrawCalls : a.cb.id = hist[k2].secondary

\* C13: in every reachable state the vertex buffer holds exactly the
\* vertices (0,-0.5), (0.5,0.5), (-0.5,0.5) in that order, and the vertex
\* buffer, the graphics pipeline, the render pass and the subpass are
\* what construction made them: no draw or render call changes them.
C13_RenderResourceReadOnly ==
    /\ render.triangle_draw_pipeline.vertices =
          << [position |-> <<F32Zero, F32NegHalf>>],
             [position |-> <<F32Half, F32Half>>],
             [position |-> <<F32NegHalf, F32Half>>] >>
    /\ render.render_pass = RenderPass_new(swapchain.format)
    /\ render.triangle_draw_pipeline.subpass = Subpass_from(render.render_pass, 0)
    /\ render.triangle_draw_pipeline.pipeline.subpass =
          render.triangle_draw_pipeline.subpass
    /\ render = Render_new(swapchain.format)

\* Draw calls at two different viewport sizes, one taller than wide, and
\* a render call have returned.
C13_Witness ==
    \E k1, k2, k3 \in Frames :
        /\ hist[k1].drawn # None /\ hist[k2].drawn # None
        /\ hist[k1].drawn[1].viewport_dimensions # hist[k2].drawn[1].viewport_dimensions
        /\ hist[k1].drawn[1].viewport_dimensions[1]
              < hist[k1].drawn[1].viewport_dimensions[2]
        /\ hist[k3].kind = "render" /\ hist[k3].ended = "returned"

\* The operations recorded in a command buffer, in order.
OpsOf(commands) == [i \in 1..Len(commands) |-> commands[i].op]

\* What render records into its primary buffer.
RenderOps == <<"begin_render_pass", "execute_commands", "end_render_pass">>

\* The primary buffers that have been sealed: the one render is about to
\* submit and the submitted ones.
SealedBuffers ==
    {r.command_buffer[i] : i \in 1..Len(r.command_buffer)}
      \cup {tokens[t].cb[1] : t \in ExecTokens}

\* How far a render call at step `at` has come: the locals it holds and
\* the number of commands in its primary buffer.
RenderAt(at, has_target, has_framebuffer, has_builder, recorded, in_pass,
         has_cb, has_command_buffer) ==
    pc = at =>
        /\ (r.target # None) = has_target
        /\ (r.framebuffer # None) = has_framebuffer
        /\ (r.builder # None) = has_builder
        /\ has_builder =>
              /\ r.builder[1].usage = "OneTimeSubmit"
              /\ OpsOf(r.builder[1].commands) = SubSeq(RenderOps, 1, recorded)
              /\ r.builder[1].in_render_pass = in_pass
        /\ (r.cb # None) = has_cb
        /\ (r.command_buffer # None) = has_command_buffer
        /\ (r.after_future # 0) = (at = "r_return")
        /\ ExecOf(Cur) = IF at = "r_return" THEN {r.after_future} ELSE {}

\* C14: within one render call the steps happen in the order framebuffer,
\* one-time-submit primary buffer, begin render pass (one clear value
\* (0,0,0,0), contents secondary command buffers), execute the secondary
\* buffer, end render pass, build, submit after before_future, return.
\* The secondary buffer is executed only inside the render pass, after the
\* clear, and a sealed primary buffer holds exactly these three commands.
C14_RenderStepOrder ==
    /\ RenderAt("r_framebuffer",       TRUE,  FALSE, FALSE, 0, FALSE, FALSE, FALSE)
    /\ RenderAt("r_primary",           FALSE, TRUE,  FALSE, 0, FALSE, FALSE, FALSE)
    /\ RenderAt("r_begin_render_pass", FALSE, TRUE,  TRUE,  0, FALSE, FALSE, FALSE)
    /\ RenderAt("r_draw",              FALSE, FALSE, TRUE,  1, TRUE,  FALSE, FALSE)
    /\ RenderAt("r_execute_commands",  FALSE, FALSE, TRUE,  1, TRUE,  TRUE,  FALSE)
    /\ RenderAt("r_end_render_pass",   FALSE, FALSE, TRUE,  2, TRUE,  FALSE, FALSE)
    /\ RenderAt("r_build",             FALSE, FALSE, TRUE,  3, FALSE, FALSE, FALSE)
    /\ RenderAt("r_then_execute",      FALSE, FALSE, FALSE, 0, FALSE, FALSE, TRUE)
    /\ RenderAt("r_return",            FALSE, FALSE, FALSE, 0, FALSE, FALSE, FALSE)
    /\ pc = "r_then_execute" => r.before_future = hist[Cur].before
    /\ \A p \in SealedBuffers :
          /\ p.kind = "primary"
          /\ p.usage = "OneTimeSubmit"
          /\ OpsOf(p.commands) = RenderOps
          /\ p.commands[1].clear_values =
                << Some(<<F32Zero, F32Zero, F32Zero, F32Zero>>) >>
          /\ p.commands[1].contents = "SecondaryCommandBuffers"
          /\ p.commands[2].cb.kind = "secondary"
    /\ \A t \in ExecTokens :
          /\ tokens[t].after = After(hist[tokens[t].frame].before)
          /\ hist[tokens[t].frame].primary = tokens[t].cb[1].id
    /\ \A k \in Frames :
          /\ hist[k].primary # 0 =>
                hist[k].framebuffer # 0 /\ hist[k].framebuffer < hist[k].primary
          /\ hist[k].secondary # 0 /\ hist[k].kind # "draw" =>
                hist[k].primary # 0 /\ hist[k].primary < hist[k].secondary
          /\ hist[k].after # 0 =>
                /\ hist[k].secondary # 0
                /\ hist[k].after \in ExecOf(k)
                /\ hist[k].before < hist[k].after

\* A render call has sealed its primary buffer and is about to submit it,
\* after an earlier call's buffer has run on the queue.
C14_Witness ==
    /\ pc = "r_then_execute"
    /\ r.before_future # 0
    /\ \E t \in ExecTokens : tokens[t].op = "done"

\* The extent of the image a primary buffer's render pass is begun on.
BoundExtent(p) == p.commands[1].framebuffer.attachments[1].extent

\* The secondary buffer is what draw returns for these dimensions, and
\* its viewport has exactly this width and height.
DrawnFor(cb, extent) ==
    /\ cb = draw(render.triangle_draw_pipeline, extent, cb.id)
    /\ F32EqualsU32(RecordedViewport(cb).extent[1], extent[1])
    /\ F32EqualsU32(RecordedViewport(cb).extent[2], extent[2])
    /\ RecordedViewport(cb).offset = <<F32Zero, F32Zero>>

\* C15: in every render call the dimensions given to draw are the extent
\* of the target image the same call binds into its framebuffer: the
\* viewport of the secondary buffer covers exactly the image of the
\* framebuffer its primary buffer renders to, whatever the extent of the
\* frame's image.
C15_ViewportIsTargetExtent ==
    /\ \A i \in 1..Len(r.img_dims) :
          /\ \A j \in 1..Len(r.framebuffer) :
                r.img_dims[i] = r.framebuffer[j].attachments[1].extent
          /\ \A j \in 1..Len(r.builder) :
                Len(r.builder[j].commands) >= 1 =>
                    r.img_dims[i] = BoundExtent(r.builder[j])
          /\ r.img_dims[i] = hist[Cur].target[1].extent
    /\ \A i \in 1..Len(r.cb), j \in 1..Len(r.builder) :
          DrawnFor(r.cb[i], BoundExtent(r.builder[j]))
    /\ \A p \in PrimaryBuffers :
          /\ Len(p.commands) >= 1 =>
                \E k \in Frames :
                    /\ hist[k].primary = p.id
                    /\ p.commands[1].framebuffer.id = hist[k].framebuffer
                    /\ p.commands[1].framebuffer.attachments = <<hist[k].target[1]>>
          /\ Len(p.commands) >= 2 =>
                DrawnFor(p.commands[2].cb, BoundExtent(p))

\* Two frames with targets of different extents have been rendered.
C15_Witness ==
    \E t1, t2 \in ExecTokens :
        /\ BoundExtent(tokens[t1].cb[1]) # BoundExtent(tokens[t2].cb[1])
        /\ tokens[t1].op = "done"
        /\ tokens[t2].op = "done"

\* The objects a call has built: the nonzero ids in its history record.
BuiltBy(k) == {hist[k].framebuffer, hist[k].primary, hist[k].secondary} \ {0}

\* How many of the three objects a call has built.
BuiltCount(k) ==
    (IF hist[k].framebuffer # 0 THEN 1 ELSE 0)
      + (IF hist[k].primary # 0 THEN 1 ELSE 0)
      + (IF hist[k].secondary # 0 THEN 1 ELSE 0)

RECURSIVE BuiltUpTo(_)
BuiltUpTo(k) == IF k = 0 THEN 0 ELSE BuiltUpTo(k - 1) + BuiltCount(k)

\* The execute_commands entries of a command list.
Executions(commands) ==
    {i \in 1..Len(commands) : commands[i].op = "execute_commands"}

\* C16: each render call builds one new framebuffer (on the target it was
\* given), one new primary and one new secondary command buffer; none is
\* kept for or used by a later call; each primary buffer is submitted
\* exactly once and each secondary buffer is executed in exactly one
\* primary buffer.
C16_FreshObjectsPerCall ==
    /\ \A k \in Frames :
          /\ Cardinality(BuiltBy(k)) = BuiltCount(k)
          /\ \A j \in Frames : j # k => BuiltBy(j) \cap BuiltBy(k) = {}
          /\ Cardinality(ExecOf(k)) <= 1
          /\ hist[k].after # 0 =>
                /\ BuiltCount(k) = 3
                /\ Cardinality(ExecOf(k)) = 1
          /\ \A t \in ExecOf(k) :
                /\ tokens[t].cb[1].id = hist[k].primary
                /\ tokens[t].cb[1].commands[1].framebuffer.id = hist[k].framebuffer
                /\ tokens[t].cb[1].commands[1].framebuffer.attachments
                      = <<hist[k].target[1]>>
                /\ tokens[t].cb[1].commands[2].cb.id = hist[k].secondary
    /\ objs = BuiltUpTo(Cur)
    /\ \A t1, t2 \in ExecTokens :
          tokens[t1].cb[1].id = tokens[t2].cb[1].id => t1 = t2
    /\ \A p \in PrimaryBuffers : Cardinality(Executions(p.commands)) <= 1
    /\ \A p \in SealedBuffers : Cardinality(Executions(p.commands)) = 1
    /\ \A p1, p2 \in PrimaryBuffers :
          (\E c1 \in ExecutedIn(p1.commands), c2 \in ExecutedIn(p2.commands) :
              c1.id = c2.id) => p1.id = p2.id
    /\ pc \in {"idle", "exited", "panicked", "m_acquire", "m_render",
               "m_present", "m_present_wait"} => r = RenderLocals

\* Two frames have been rendered to the same swapchain image and
\* presented, each with a framebuffer and command buffers of its own.
C16_Witness ==
    \E k1, k2 \in Frames :
        /\ k1 < k2
        /\ hist[k1].presents = 1 /\ hist[k1].ended = "returned"
        /\ hist[k2].presents = 1 /\ hist[k2].ended = "returned"
        /\ hist[k1].target = hist[k2].target
        /\ BuiltCount(k1) = 3 /\ BuiltCount(k2) = 3

\* The iterations of the frame loop that are over.
Ended == {k \in Frames : hist[k].ended # "running"}

\* What an iteration has done was done in the order acquire, image view,
\* render, present, each at most once, and no present is without the
\* acquire and the render of its iteration.
IterationInOrder(k) ==
    /\ hist[k].calls <= 1
    /\ hist[k].presents <= 1
    /\ hist[k].acquire # "ok" => hist[k].calls = 0 /\ hist[k].presents = 0
    /\ hist[k].calls = 1 =>
          /\ hist[k].acquire = "ok"
          /\ hist[k].before \in AcquireTokens
          /\ tokens[hist[k].before].frame = k
          \* the image view is the one of the image just acquired
          /\ hist[k].target[1].image = tokens[hist[k].before].image
          /\ \A t \in ExecOf(k) : hist[k].before < t
    /\ hist[k].presents = 1 =>
          /\ hist[k].calls = 1
          /\ hist[k].after \in ExecOf(k)
          /\ \E p \in PresentOf(k) :
                /\ PresentOf(k) = {p}
                /\ tokens[p].after = {hist[k].after}
                /\ tokens[p].image = tokens[hist[k].before].image
                /\ hist[k].before < hist[k].after
                /\ hist[k].after < p
    /\ hist[k].presents = 0 => PresentOf(k) = {}

\* C17: in every iteration the operations occur at most once and in the
\* order acquire, image view, render, present; an iteration whose acquire
\* succeeds calls render exactly once, on the view of the image acquired;
\* every acquired image for which render returns is presented exactly
\* once in the same iteration; there is no present without the successful
\* acquire and the returned render of its iteration.
C17_AcquiredFramePresentedIfRenderReturns ==
    /\ \A k \in Frames : IterationInOrder(k)
    /\ \A k \in Ended :
          hist[k].acquire = "ok" =>
              /\ hist[k].calls = 1
              /\ hist[k].ended = "returned" =>
                    hist[k].after # 0 /\ hist[k].presents = 1
    /\ \A k \in Frames :
          hist[k].after # 0 =>
              \/ hist[k].presents = 1
              \/ k = Cur /\ pc = "m_present"

\* Two iterations have each acquired, rendered and presented an image,
\* the second one to another image than the first.
C17_Witness ==
    \E k1, k2 \in Ended :
        /\ k1 < k2
        /\ hist[k1].acquire = "ok" /\ hist[k1].calls = 1
        /\ hist[k1].presents = 1 /\ hist[k1].ended = "returned"
        /\ hist[k2].acquire = "ok" /\ hist[k2].calls = 1
        /\ hist[k2].presents = 1 /\ hist[k2].ended = "returned"
        /\ hist[k1].target[1].image # hist[k2].target[1].image

\* The iterations in which the single-window query failed.
WindowlessFrames == {k \in Frames : ~hist[k].window}

\* C18: an iteration in which there is not exactly one window does no
\* acquire, no render and no present, builds nothing, creates and uses no
\* future, and leaves the render resource as it was constructed.
C18_NoWindowNoFrame ==
    /\ \A k \in WindowlessFrames :
          /\ hist[k].acquire = "none"
          /\ hist[k].calls = 0
          /\ hist[k].presents = 0
          /\ hist[k].before = 0 /\ hist[k].after = 0
          /\ hist[k].target = None
          /\ BuiltBy(k) = {}
          /\ hist[k].failed = "none"
          /\ hist[k].ended = "returned"
          /\ \A t \in TokenIds : tokens[t].frame # k
          /\ k = Cur => m = MainLocals /\ r = RenderLocals
    /\ WindowlessFrames # {} =>
          /\ render = Render_new(swapchain.format)
          /\ objs = BuiltUpTo(Cur)
    \* the iteration changes nothing but its own record
    /\ \A k \in WindowlessFrames :
          k > 1 /\ hist[k - 1].presents = 1 =>
              /\ previous_frame_end \in PresentOf(k - 1)
              /\ tokens[previous_frame_end].uses = <<>>

\* The window was closed after a frame had been presented, and the
\* system has run once more.
C18_Witness ==
    \E k \in WindowlessFrames :
        /\ k > 1
        /\ hist[k - 1].presents = 1
        /\ hist[k - 1].ended = "returned"
        /\ hist[k].ended = "returned"
        /\ windows = 0

=============================================================================
